---------------------------- MODULE Spec2Model ----------------------------
(***************************************************************************)
(* Model of tracing_tutorial.tracing.backends: the backend dispatcher      *)
(* configure_tracing, the tracer-provider builder, the five provider       *)
(* adapters and the OTLP transport selector.                               *)
(*                                                                         *)
(* Python strings are modelled as sequences of one-character strings, so   *)
(* that lower(), startswith(), endswith(), in, split() and strip() are   *)
(* computed character by character.  An optional value (the result of      *)
(* os.getenv without a default, or an unset environment variable) is the   *)
(* empty sequence <<>> for None and <<v>> for the value v.                 *)
(***************************************************************************)
EXTENDS Integers, Sequences, FiniteSets, TLC

VARIABLES
    env,                  \* os.environ: variable name -> optional string
    DEFAULT_SERVICE_NAME, \* module constant, read from env at import time
    providers,            \* every TracerProvider built so far, in order
    globalProvider,       \* opentelemetry.trace's global provider (0: none)
    tracers,              \* every tracer handle returned so far, in order
    instrumentor,         \* provider the LangChain instrumentor is bound to (0: none)
    last                  \* frame of the most recent configure_tracing call

vars == <<env, DEFAULT_SERVICE_NAME, providers, globalProvider, tracers,
          instrumentor, last>>

(***************************************************************************)
(* Bounds of the model.                                                    *)
(***************************************************************************)
\* configure_tracing calls per behaviour
MaxCalls == 3
\* length of the enumerated OTEL_EXPORTER_OTLP_HEADERS strings
MaxHeaderLen == 4

(***************************************************************************)
(* Characters and Python's str methods.                                    *)
(***************************************************************************)
\* ASCII 32..126 (the quote, the backslash and the backtick by name)
Printable ==
  <<
     " ","!","QUOTE","#","$","%","&","'","(",")","*","+",",","-",".","/",
     "0","1","2","3","4","5","6","7","8","9",":",";","<","=",">","?",
     "@","A","B","C","D","E","F","G","H","I","J","K","L","M","N","O",
     "P","Q","R","S","T","U","V","W","X","Y","Z","[","BACKSLASH","]","^","_",
     "BACKTICK","a","b","c","d","e","f","g","h","i","j","k","l","m","n","o",
     "p","q","r","s","t","u","v","w","x","y","z","{","|","}","~" >>

Ord(c) == 31 + (CHOOSE i \in 1..Len(Printable) : Printable[i] = c)

Chr(n) == Printable[n - 31]

\* str.lower() on one character (ASCII letters)
LowerChar(c) ==
    IF c \in {Printable[i] : i \in 34..59} THEN Chr(Ord(c) + 32) ELSE c

\* str.lower()
Lower(s) == [i \in 1..Len(s) |-> LowerChar(s[i])]

\* str.startswith(p)
StartsWith(s, p) ==
    /\ Len(p) <= Len(s)
    /\ SubSeq(s, 1, Len(p)) = p

\* str.endswith(p)
EndsWith(s, p) ==
    /\ Len(p) <= Len(s)
    /\ SubSeq(s, Len(s) - Len(p) + 1, Len(s)) = p

\* p in s
Contains(s, p) ==
    \E i \in 1..(Len(s) - Len(p) + 1) : SubSeq(s, i, i + Len(p) - 1) = p

\* characters str.strip() removes
Whitespace == {" ", "\t", "\n", "\r"}

RECURSIVE LStrip(_)
LStrip(s) ==
    IF s # <<>> /\ Head(s) \in Whitespace THEN LStrip(Tail(s)) ELSE s

RECURSIVE RStrip(_)
RStrip(s) ==
    IF s # <<>> /\ s[Len(s)] \in Whitespace
    THEN RStrip(SubSeq(s, 1, Len(s) - 1))
    ELSE s

\* str.strip()
Strip(s) == RStrip(LStrip(s))

\* position of the first occurrence of character c in s (0: none)
Find(s, c) ==
    IF \E i \in 1..Len(s) : s[i] = c
    THEN CHOOSE i \in 1..Len(s) : s[i] = c /\ \A j \in 1..(i - 1) : s[j] # c
    ELSE 0

\* str.split(c): every piece between separators, empty pieces kept
RECURSIVE Split(_, _)
Split(s, c) ==
    LET i == Find(s, c)
    IN  IF i = 0
        THEN <<s>>
        ELSE <<SubSeq(s, 1, i - 1)>> \o Split(SubSeq(s, i + 1, Len(s)), c)

\* str.split(c, 1): at most one split, at the first separator
SplitOnce(s, c) ==
    LET i == Find(s, c)
    IN  IF i = 0
        THEN <<s>>
        ELSE <<SubSeq(s, 1, i - 1), SubSeq(s, i + 1, Len(s))>>

(***************************************************************************)
(* Optional values and dictionaries.                                       *)
(***************************************************************************)
None == <<>>

Some(v) == <<v>>

\* Python truthiness of an optional string: not None and not ""
Truthy(o) == o # None /\ o[1] # <<>>

\* {}
EmptyDict == <<>>

\* d[k] = v
DictSet(d, k, v) == (k :> v) @@ d

(***************************************************************************)
(* base64.b64encode over the bytes of an ASCII string.                     *)
(***************************************************************************)
B64Alphabet ==
  << "A","B","C","D","E","F","G","H","I","J","K","L","M","N","O","P",
     "Q","R","S","T","U","V","W","X","Y","Z","a","b","c","d","e","f",
     "g","h","i","j","k","l","m","n","o","p","q","r","s","t","u","v",
     "w","x","y","z","0","1","2","3","4","5","6","7","8","9","+","/" >>

B64Char(n) == B64Alphabet[n + 1]

RECURSIVE B64Encode(_)
B64Encode(s) ==
    IF Len(s) = 0 THEN <<>>
    ELSE LET a == Ord(s[1])
             b == IF Len(s) >= 2 THEN Ord(s[2]) ELSE 0
             c == IF Len(s) >= 3 THEN Ord(s[3]) ELSE 0
             n == a * 65536 + b * 256 + c
             q == << B64Char(n \div 262144),
                     B64Char((n \div 4096) % 64),
                     IF Len(s) >= 2 THEN B64Char((n \div 64) % 64) ELSE "=",
                     IF Len(s) >= 3 THEN B64Char(n % 64) ELSE "=" >>
         IN  q \o (IF Len(s) > 3 THEN B64Encode(SubSeq(s, 4, Len(s))) ELSE <<>>)

(***************************************************************************)
(* String literals of backends.py.                                         *)
(***************************************************************************)
TRACING_TUTORIAL == <<"t","r","a","c","i","n","g","-","t","u","t","o","r","i","a","l">>
VERSION_DEFAULT == <<"0",".","1",".","0">>
ENVIRONMENT_DEFAULT == <<"d","e","v">>
HTTP_SCHEME == <<"h","t","t","p",":","/","/">>
HTTPS_SCHEME == <<"h","t","t","p","s",":","/","/">>
V1_TRACES == <<"/","v","1","/","t","r","a","c","e","s">>
LANGFUSE_HOST_DEFAULT == <<"h","t","t","p",":","/","/","l","o","c","a","l","h","o","s","t",":","3","0","0","0">>
LANGFUSE_CLOUD_DOMAIN == <<"c","l","o","u","d",".","l","a","n","g","f","u","s","e",".","c","o","m">>
LANGFUSE_US_MARK == <<"u","s",".","c","l","o","u","d">>
LANGFUSE_US_ENDPOINT == <<"h","t","t","p","s",":","/","/","u","s",".","c","l","o","u","d",".","l","a","n","g","f","u","s","e",".","c","o","m","/","a","p","i","/","p","u","b","l","i","c","/","o","t","e","l">>
LANGFUSE_CLOUD_ENDPOINT == <<"h","t","t","p","s",":","/","/","c","l","o","u","d",".","l","a","n","g","f","u","s","e",".","c","o","m","/","a","p","i","/","p","u","b","l","i","c","/","o","t","e","l">>
LANGFUSE_OTEL_PATH == <<"/","a","p","i","/","p","u","b","l","i","c","/","o","t","e","l">>
AUTHORIZATION == <<"A","u","t","h","o","r","i","z","a","t","i","o","n">>
BASIC == <<"B","a","s","i","c"," ">>
LANGSMITH_ENDPOINT_DEFAULT == <<"h","t","t","p","s",":","/","/","a","p","i",".","s","m","i","t","h",".","l","a","n","g","c","h","a","i","n",".","c","o","m">>
LANGSMITH_EU_MARK == <<"e","u",".","a","p","i">>
LANGSMITH_EU_ENDPOINT == <<"h","t","t","p","s",":","/","/","e","u",".","a","p","i",".","s","m","i","t","h",".","l","a","n","g","c","h","a","i","n",".","c","o","m","/","o","t","e","l">>
OTEL_PATH == <<"/","o","t","e","l">>
X_API_KEY == <<"x","-","a","p","i","-","k","e","y">>
LANGSMITH_PROJECT_HEADER == <<"L","a","n","g","s","m","i","t","h","-","P","r","o","j","e","c","t">>
PHOENIX_ENDPOINT_DEFAULT == <<"h","t","t","p",":","/","/","l","o","c","a","l","h","o","s","t",":","6","0","0","6">>
PHOENIX_AUTH_HEADER == <<"a","u","t","h","o","r","i","z","a","t","i","o","n">>
OTLP_ENDPOINT_DEFAULT == <<"l","o","c","a","l","h","o","s","t",":","4","3","1","7">>
CONSOLE == <<"c","o","n","s","o","l","e">>
LANGFUSE == <<"l","a","n","g","f","u","s","e">>
LANGSMITH == <<"l","a","n","g","s","m","i","t","h">>
PHOENIX == <<"p","h","o","e","n","i","x">>

\* the environment variables backends.py reads
EnvKeys ==
    { "TRACING_BACKEND", "OTEL_SERVICE_NAME", "OTEL_SERVICE_VERSION",
      "OTEL_ENVIRONMENT", "LANGFUSE_HOST", "LANGFUSE_PUBLIC_KEY",
      "LANGFUSE_SECRET_KEY", "LANGSMITH_ENDPOINT", "LANGSMITH_API_KEY",
      "LANGSMITH_PROJECT", "PHOENIX_ENDPOINT", "PHOENIX_API_KEY",
      "OTEL_EXPORTER_OTLP_TRACES_ENDPOINT", "OTEL_EXPORTER_OTLP_ENDPOINT",
      "OTEL_EXPORTER_OTLP_HEADERS" }

\* os.getenv(k): None when unset
getenv(e, k) == e[k]

\* os.getenv(k, d): d only when unset (a variable set to "" yields "")
getenv_default(e, k, d) == IF e[k] = None THEN d ELSE e[k][1]

(***************************************************************************)
(* _ensure_provider                                                        *)
(***************************************************************************)
\* Resource.create({...})
Resource(e, service_name) ==
    [ service_name |-> service_name,
      service_version |-> getenv_default(e, "OTEL_SERVICE_VERSION", VERSION_DEFAULT),
      deployment_environment |-> getenv_default(e, "OTEL_ENVIRONMENT", ENVIRONMENT_DEFAULT) ]

\* TracerProvider(resource=resource): no span processor yet, not shut down
TracerProvider(resource) ==
    [resource |-> resource, processors |-> <<>>, shutdown |-> FALSE]

\* trace.set_tracer_provider(p): opentelemetry guards the global with a
\* set-once latch; a second call logs "Overriding of current TracerProvider
\* is not allowed" and leaves the global as it was.
set_tracer_provider(current, p) == IF current = 0 THEN p ELSE current

(***************************************************************************)
(* _get_otlp_exporter                                                      *)
(***************************************************************************)
\* fault: the HTTP branch appends "/v1/traces" without looking at the ending
get_otlp_exporter_always_appends(endpoint, headers) ==
    IF StartsWith(endpoint, HTTP_SCHEME) \/ StartsWith(endpoint, HTTPS_SCHEME)
    THEN [kind |-> "http", endpoint |-> endpoint \o V1_TRACES, headers |-> headers]
    ELSE [kind |-> "grpc", endpoint |-> endpoint, headers |-> headers]

get_otlp_exporter(endpoint, headers) ==
    IF StartsWith(endpoint, HTTP_SCHEME) \/ StartsWith(endpoint, HTTPS_SCHEME)
    THEN [ kind |-> "http",
           endpoint |-> IF ~EndsWith(endpoint, V1_TRACES)
                        THEN endpoint \o V1_TRACES
                        ELSE endpoint,
           headers |-> headers ]
    ELSE [ kind |-> "grpc", endpoint |-> endpoint, headers |-> headers ]

ConsoleSpanExporter == [kind |-> "console"]

BatchSpanProcessor(exporter) == [exporter |-> exporter]

\* what an adapter leaves behind: the endpoint and headers it resolved, the
\* processors it registered, and whether it raised before registering
AdapterFrame(endpoint, headers, exporter) ==
    [ raised |-> FALSE, endpoint |-> endpoint, headers |-> headers,
      added |-> <<BatchSpanProcessor(exporter)>> ]

AdapterRaised == [raised |-> TRUE, endpoint |-> None, headers |-> EmptyDict, added |-> <<>>]

(***************************************************************************)
(* _setup_langfuse_otlp                                                    *)
(***************************************************************************)
langfuse_endpoint(e) ==
    LET host == getenv_default(e, "LANGFUSE_HOST", LANGFUSE_HOST_DEFAULT)
    IN  IF Contains(host, LANGFUSE_CLOUD_DOMAIN)
        THEN IF Contains(host, LANGFUSE_US_MARK)
             THEN LANGFUSE_US_ENDPOINT
             ELSE LANGFUSE_CLOUD_ENDPOINT
        ELSE host \o LANGFUSE_OTEL_PATH

\* fault: "or" for "and": one key is enough, the missing one formats as "None"
langfuse_headers_either_key(e) ==
    LET public_key == getenv(e, "LANGFUSE_PUBLIC_KEY")
        secret_key == getenv(e, "LANGFUSE_SECRET_KEY")
        text(o) == IF o = None THEN <<"N","o","n","e">> ELSE o[1]
    IN  IF Truthy(public_key) \/ Truthy(secret_key)
        THEN DictSet(EmptyDict, AUTHORIZATION,
                     BASIC \o B64Encode(text(public_key) \o <<":">> \o text(secret_key)))
        ELSE EmptyDict

langfuse_headers(e) ==
    LET public_key == getenv(e, "LANGFUSE_PUBLIC_KEY")
        secret_key == getenv(e, "LANGFUSE_SECRET_KEY")
    IN  IF Truthy(public_key) /\ Truthy(secret_key)
        THEN LET credentials == public_key[1] \o <<":">> \o secret_key[1]
                 encoded == B64Encode(credentials)
             IN  DictSet(EmptyDict, AUTHORIZATION, BASIC \o encoded)
        ELSE EmptyDict

setup_langfuse_otlp(e) ==
    LET endpoint == langfuse_endpoint(e)
        headers == langfuse_headers(e)
    IN  AdapterFrame(Some(endpoint), headers, get_otlp_exporter(endpoint, headers))

(***************************************************************************)
(* _setup_langsmith_otlp                                                   *)
(***************************************************************************)
langsmith_endpoint(e) ==
    LET api_url == getenv_default(e, "LANGSMITH_ENDPOINT", LANGSMITH_ENDPOINT_DEFAULT)
    IN  IF Contains(api_url, LANGSMITH_EU_MARK)
        THEN LANGSMITH_EU_ENDPOINT
        ELSE IF ~EndsWith(api_url, OTEL_PATH) THEN api_url \o OTEL_PATH ELSE api_url

langsmith_headers(e) ==
    LET api_key == getenv(e, "LANGSMITH_API_KEY")
        project == getenv(e, "LANGSMITH_PROJECT")
        h1 == IF Truthy(api_key) THEN DictSet(EmptyDict, X_API_KEY, api_key[1]) ELSE EmptyDict
    IN  IF Truthy(project) THEN DictSet(h1, LANGSMITH_PROJECT_HEADER, project[1]) ELSE h1

setup_langsmith_otlp(e) ==
    LET endpoint == langsmith_endpoint(e)
        headers == langsmith_headers(e)
    IN  AdapterFrame(Some(endpoint), headers, get_otlp_exporter(endpoint, headers))

(***************************************************************************)
(* _setup_phoenix_otlp                                                     *)
(***************************************************************************)
setup_phoenix_otlp(e) ==
    LET endpoint == getenv_default(e, "PHOENIX_ENDPOINT", PHOENIX_ENDPOINT_DEFAULT)
        api_key == getenv(e, "PHOENIX_API_KEY")
        headers == IF Truthy(api_key)
                   THEN DictSet(EmptyDict, PHOENIX_AUTH_HEADER, api_key[1])
                   ELSE EmptyDict
    IN  AdapterFrame(Some(endpoint), headers, get_otlp_exporter(endpoint, headers))

(***************************************************************************)
(* _setup_generic_otlp                                                     *)
(***************************************************************************)
\* os.getenv(TRACES) or os.getenv(ENDPOINT, "localhost:4317")
generic_endpoint(e) ==
    LET traces == getenv(e, "OTEL_EXPORTER_OTLP_TRACES_ENDPOINT")
    IN  IF Truthy(traces)
        THEN traces[1]
        ELSE getenv_default(e, "OTEL_EXPORTER_OTLP_ENDPOINT", OTLP_ENDPOINT_DEFAULT)

\* fault: header.split("=") without the limit, so a value holding "=" makes
\* the unpacking raise
RECURSIVE parse_header_segments_split_all(_, _)
parse_header_segments_split_all(segments, headers) ==
    IF segments = <<>>
    THEN [raised |-> FALSE, headers |-> headers]
    ELSE LET header == Head(segments)
         IN  IF Contains(header, <<"=">>)
             THEN LET parts == Split(header, "=")
                  IN  IF Len(parts) # 2
                      THEN [raised |-> TRUE, headers |-> headers]
                      ELSE parse_header_segments_split_all(Tail(segments),
                               DictSet(headers, Strip(parts[1]), Strip(parts[2])))
             ELSE parse_header_segments_split_all(Tail(segments), headers)

\* the body of "for header in headers_str.split(",")", one segment per step;
\* "key, value = header.split("=", 1)" raises ValueError unless it yields
\* two parts
RECURSIVE parse_header_segments(_, _)
parse_header_segments(segments, headers) ==
    IF segments = <<>>
    THEN [raised |-> FALSE, headers |-> headers]
    ELSE LET header == Head(segments)
         IN  IF Contains(header, <<"=">>)
             THEN LET parts == SplitOnce(header, "=")
                  IN  IF Len(parts) # 2
                      THEN [raised |-> TRUE, headers |-> headers]
                      ELSE parse_header_segments(Tail(segments),
                               DictSet(headers, Strip(parts[1]), Strip(parts[2])))
             ELSE parse_header_segments(Tail(segments), headers)

\* headers_str -> headers
parse_headers(headers_str) ==
    IF headers_str # <<>>
    THEN parse_header_segments(Split(headers_str, ","), EmptyDict)
    ELSE [raised |-> FALSE, headers |-> EmptyDict]

setup_generic_otlp(e) ==
    LET endpoint == generic_endpoint(e)
        parsed == parse_headers(getenv_default(e, "OTEL_EXPORTER_OTLP_HEADERS", <<>>))
    IN  IF parsed.raised
        THEN AdapterRaised
        ELSE AdapterFrame(Some(endpoint), parsed.headers,
                          get_otlp_exporter(endpoint, parsed.headers))

(***************************************************************************)
(* _setup_console                                                          *)
(***************************************************************************)
setup_console(e) == AdapterFrame(None, EmptyDict, ConsoleSpanExporter)

(***************************************************************************)
(* configure_tracing                                                       *)
(***************************************************************************)
\* fault: the .lower() is missing
read_backend_case_sensitive(e) == getenv_default(e, "TRACING_BACKEND", CONSOLE)

\* backend = os.getenv("TRACING_BACKEND", "console").lower()
read_backend(e) == Lower(getenv_default(e, "TRACING_BACKEND", CONSOLE))

\* the if/elif chain: which adapter runs for a backend name
select_adapter(backend) ==
    IF backend = LANGFUSE THEN "langfuse"
    ELSE IF backend = LANGSMITH THEN "langsmith"
    ELSE IF backend = PHOENIX THEN "phoenix"
    ELSE IF backend = CONSOLE THEN "console"
    ELSE "generic_otlp"

\* the adapters run by one call, in order
adapters_run(backend) == <<select_adapter(backend)>>

run_adapter(name, e) ==
    CASE name = "langfuse" -> setup_langfuse_otlp(e)
      [] name = "langsmith" -> setup_langsmith_otlp(e)
      [] name = "phoenix" -> setup_phoenix_otlp(e)
      [] name = "console" -> setup_console(e)
      [] OTHER -> setup_generic_otlp(e)

\* fault: the processor list is shared by every provider
add_span_processors_shared(ps, p, added) ==
    [i \in 1..Len(ps) |-> [ps[i] EXCEPT !.processors = @ \o added]]

\* provider.add_span_processor for every processor the adapters registered,
\* on provider p only
add_span_processors(ps, p, added) ==
    [ps EXCEPT ![p].processors = @ \o added]

\* LangChainInstrumentor().instrument(tracer_provider=provider) under the
\* try/except: "ok" binds the (singleton) instrumentor unless it is already
\* bound; ImportError and Exception are caught and only print a warning
instrument(current, p, outcome) ==
    IF outcome = "ok" /\ current = 0 THEN p ELSE current

AttachOutcomes == {"ok", "ImportError", "Exception"}

\* trace.get_tracer(service): a tracer of the global provider
get_tracer(global, service) == [name |-> service, provider |-> global]

NoCall ==
    [ called |-> FALSE, env |-> [k \in EnvKeys |-> None], service_name |-> None,
      backend |-> <<>>, adapters |-> <<>>, frames |-> <<>>, provider |-> 0,
      raised |-> FALSE, attach |-> "none", tracer |-> 0 ]

\* the selected adapters, run in order; an exception ends the run
RECURSIVE run_adapters(_, _)
run_adapters(names, e) ==
    IF names = <<>>
    THEN <<>>
    ELSE LET f == run_adapter(Head(names), e)
         IN  IF f.raised THEN <<f>> ELSE <<f>> \o run_adapters(Tail(names), e)

\* every processor the frames registered, in order
RECURSIVE registered(_)
registered(frames) ==
    IF frames = <<>> THEN <<>> ELSE Head(frames).added \o registered(Tail(frames))

\* service = service_name or DEFAULT_SERVICE_NAME
service_of(service_name, default) ==
    IF Truthy(service_name) THEN service_name[1] ELSE default

\* One call of configure_tracing(service_name); outcome is what the
\* instrumentation attempt does.
configure_tracing(service_name, outcome) ==
    /\ Len(providers) < MaxCalls
    /\ LET backend == read_backend(env)
           service == service_of(service_name, DEFAULT_SERVICE_NAME)
           p == Len(providers) + 1
           built == Append(providers, TracerProvider(Resource(env, service)))
           global == set_tracer_provider(globalProvider, p)
           names == adapters_run(backend)
           frames == run_adapters(names, env)
           raised == \E i \in 1..Len(frames) : frames[i].raised
       IN  /\ providers' = add_span_processors(built, p, registered(frames))
           /\ globalProvider' = global
           /\ instrumentor' = IF raised THEN instrumentor
                              ELSE instrument(instrumentor, p, outcome)
           /\ tracers' = IF raised THEN tracers
                         ELSE Append(tracers, get_tracer(global, service))
           /\ last' = [ called |-> TRUE, env |-> env, service_name |-> service_name,
                        backend |-> backend, adapters |-> names, frames |-> frames,
                        provider |-> p, raised |-> raised,
                        attach |-> IF raised THEN "none" ELSE outcome,
                        tracer |-> IF raised THEN 0 ELSE Len(tracers) + 1 ]
    /\ UNCHANGED <<env, DEFAULT_SERVICE_NAME>>

\* os.environ[k] = v, by the host process between calls
setenv(k, v) ==
    /\ env[k] # Some(v)
    /\ env' = [env EXCEPT ![k] = Some(v)]
    /\ UNCHANGED <<DEFAULT_SERVICE_NAME, providers, globalProvider, tracers,
                   instrumentor, last>>

\* del os.environ[k]
unsetenv(k) ==
    /\ env[k] # None
    /\ env' = [env EXCEPT ![k] = None]
    /\ UNCHANGED <<DEFAULT_SERVICE_NAME, providers, globalProvider, tracers,
                   instrumentor, last>>

(***************************************************************************)
(* Inputs and specifications.                                              *)
(***************************************************************************)
\* nothing set
BaseEnv == [k \in EnvKeys |-> None]

\* unset, or set to one of vs
Opt(vs) == {None} \cup {Some(v) : v \in vs}

\* every string over alphabet A of length at most n
Strings(A, n) == UNION {[1..k -> A] : k \in 0..n}

\* scheme, host and path put together
Urls(schemes, hosts, paths) ==
    {s \o h \o p : s \in schemes, h \in hosts, p \in paths}

\* service_name arguments: omitted, "", a name
ServiceNames == {None, Some(<<>>), Some(<<"d","e","m","o">>)}

\* the state after importing tracing_tutorial.tracing.backends under
\* environment e0
InitFrom(e0) ==
    /\ env = e0
    /\ DEFAULT_SERVICE_NAME = getenv_default(e0, "OTEL_SERVICE_NAME", TRACING_TUTORIAL)
    /\ providers = <<>>
    /\ globalProvider = 0
    /\ tracers = <<>>
    /\ instrumentor = 0
    /\ last = NoCall

\* configure_tracing(service_name) with any argument
Call == \E sn \in ServiceNames, o \in AttachOutcomes : configure_tracing(sn, o)

\* configure_tracing() with the argument omitted
CallDefault == \E o \in AttachOutcomes : configure_tracing(None, o)

NextCall == CallDefault

\* ---- the process lifecycle: TRACING_BACKEND changes between calls ----
LifecycleBackends == { <<"o","t","l","p">>, <<"L","A","N","G","F","U","S","E">> }

Init == InitFrom(BaseEnv)

Next ==
    \/ \E v \in LifecycleBackends : setenv("TRACING_BACKEND", v)
    \/ unsetenv("TRACING_BACKEND")
    \/ Call

Spec == Init /\ [][Next]_vars

\* ---- dispatch: every TRACING_BACKEND value, fixed for the process ----
BackendValues ==
    { <<>>, <<"c","o","n","s","o","l","e">>, <<"C","O","N","S","O","L","E">>, <<"C","o","n","s","o","l","e">>, <<"l","a","n","g","f","u","s","e">>, <<"L","a","n","g","F","u","s","e">>,
      <<"L","A","N","G","F","U","S","E">>, <<"l","a","n","g","s","m","i","t","h">>, <<"L","A","N","G","S","M","I","T","H">>, <<"L","a","n","g","S","m","i","t","h">>, <<"p","h","o","e","n","i","x">>,
      <<"P","h","o","e","n","i","x">>, <<"P","H","O","E","N","I","X">>, <<"o","t","l","p">>, <<"O","T","L","P">>, <<"w","e","i","r","d","-","v","a","l","u","e">>,
      <<"c","o","n","s","o","l">>, <<"c","o","n","s","o","l","e"," ">>, <<" ","l","a","n","g","f","u","s","e">>, <<"l","a","n","g","-","s","m","i","t","h">>, <<"p","h","o","e","n","i","x","x">> }

InitDispatch ==
    \E b \in Opt(BackendValues) :
        InitFrom([BaseEnv EXCEPT !["TRACING_BACKEND"] = b])

SpecDispatch == InitDispatch /\ [][Call]_vars

\* ---- endpoints reaching the transport selector (phoenix, generic otlp) ----
EndpointSchemes ==
    { <<>>, <<"h","t","t","p",":","/","/">>, <<"h","t","t","p","s",":","/","/">>, <<"H","T","T","P",":","/","/">>, <<"h","t","t","p",":","/">>, <<"g","r","p","c",":","/","/">>,
      <<" ","h","t","t","p","s",":","/","/">> }

EndpointHosts == { <<>>, <<"l","o","c","a","l","h","o","s","t",":","4","3","1","7">>, <<"c","o","l","l","e","c","t","o","r">> }

EndpointPaths ==
    { <<>>, <<"/">>, <<"/","v","1","/","t","r","a","c","e","s">>, <<"/","v","1","/","t","r","a","c","e","s","/">>, <<"/","v","1","/","t","r","a","c","e">>,
      <<"/","x","/","v","1","/","t","r","a","c","e","s">>, <<"/","V","1","/","T","R","A","C","E","S">> }

Endpoints == Urls(EndpointSchemes, EndpointHosts, EndpointPaths)

FallbackEndpoints == { <<>>, <<"h","t","t","p",":","/","/","f","a","l","l","b","a","c","k",":","4","3","1","8">> }

InitEndpoints ==
    \/ \E ep \in Opt(Endpoints), key \in Opt({<<>>, <<"s","e","c","r","e","t">>}) :
           InitFrom([BaseEnv EXCEPT !["TRACING_BACKEND"] = Some(<<"p","h","o","e","n","i","x">>),
                                    !["PHOENIX_ENDPOINT"] = ep,
                                    !["PHOENIX_API_KEY"] = key])
    \/ \E ep \in Opt(Endpoints), fb \in Opt(FallbackEndpoints),
          hs \in Opt({ <<"k","=","v">> }) :
           InitFrom([BaseEnv EXCEPT !["TRACING_BACKEND"] = Some(<<"o","t","l","p">>),
                                    !["OTEL_EXPORTER_OTLP_TRACES_ENDPOINT"] = ep,
                                    !["OTEL_EXPORTER_OTLP_ENDPOINT"] = fb,
                                    !["OTEL_EXPORTER_OTLP_HEADERS"] = hs])

SpecEndpoints == InitEndpoints /\ [][NextCall]_vars

\* ---- OTEL_EXPORTER_OTLP_HEADERS strings ----
HeaderAlphabet == {"a", "b", "=", ",", " "}

HeaderSamples ==
    { <<"k","1","=","v","1",",","k","2","=","v","2">>, <<"b","a","d",",","k","=","v">>, <<"k","=","a","=","b">>, <<" ","k"," ","="," ","v"," ",",","x","=","y">>, <<"k","=","v",",","k","=","w">>,
      <<"=","v">>, <<"k","=">>, <<"k","=","v",",">>, <<"\t","k","=","v","\t">> }

HeaderStrings == Strings(HeaderAlphabet, MaxHeaderLen) \cup HeaderSamples

InitHeaders ==
    \E hs \in Opt(HeaderStrings) :
        InitFrom([BaseEnv EXCEPT !["TRACING_BACKEND"] = Some(<<"o","t","l","p">>),
                                 !["OTEL_EXPORTER_OTLP_HEADERS"] = hs])

SpecHeaders == InitHeaders /\ [][NextCall]_vars

\* ---- langfuse ----
LangfuseHosts ==
    Urls({ <<"h","t","t","p","s",":","/","/">>, <<"h","t","t","p",":","/","/">> },
         { <<"c","l","o","u","d",".","l","a","n","g","f","u","s","e",".","c","o","m">>, <<"u","s",".","c","l","o","u","d",".","l","a","n","g","f","u","s","e",".","c","o","m">>,
           <<"e","u",".","c","l","o","u","d",".","l","a","n","g","f","u","s","e",".","c","o","m">>, <<"s","t","a","t","u","s",".","c","l","o","u","d",".","l","a","n","g","f","u","s","e",".","c","o","m">>,
           <<"l","o","c","a","l","h","o","s","t",":","3","0","0","0">>, <<"l","a","n","g","f","u","s","e",".","e","x","a","m","p","l","e",".","o","r","g">>,
           <<"c","l","o","u","d",".","l","a","n","g","f","u","s","e",".","c","o","m",".","e","x","a","m","p","l","e",".","o","r","g">> },
         { <<>>, <<"/">>, <<"/","a","p","i","/","p","u","b","l","i","c","/","o","t","e","l">>, <<"/","p","r","o","j","e","c","t","/","1">> })
    \cup { <<>> }

LangfuseKeys == { <<>>, <<"p">>, <<"p","k">>, <<"p","k","-","l","f","-","1">> }

InitLangfuse ==
    \E host \in Opt(LangfuseHosts), pk \in Opt(LangfuseKeys),
       sk \in Opt(LangfuseKeys) :
        InitFrom([BaseEnv EXCEPT !["TRACING_BACKEND"] = Some(<<"l","a","n","g","f","u","s","e">>),
                                 !["LANGFUSE_HOST"] = host,
                                 !["LANGFUSE_PUBLIC_KEY"] = pk,
                                 !["LANGFUSE_SECRET_KEY"] = sk])

SpecLangfuse == InitLangfuse /\ [][NextCall]_vars

\* ---- langsmith ----
LangsmithEndpoints ==
    Urls({ <<"h","t","t","p","s",":","/","/">>, <<"h","t","t","p",":","/","/">> },
         { <<"a","p","i",".","s","m","i","t","h",".","l","a","n","g","c","h","a","i","n",".","c","o","m">>, <<"e","u",".","a","p","i",".","s","m","i","t","h",".","l","a","n","g","c","h","a","i","n",".","c","o","m">>,
           <<"e","u",".","a","p","i",".","e","x","a","m","p","l","e",".","c","o","m">>, <<"l","a","n","g","s","m","i","t","h",".","e","x","a","m","p","l","e",".","c","o","m">> },
         { <<>>, <<"/">>, <<"/","o","t","e","l">>, <<"/","o","t","e","l","/">>, <<"/","o","t","e","l","/","o","t","e","l">>, <<"/","a","p","i","/","v","1">> })
    \cup { <<>>, <<"/","o","t","e","l">> }

InitLangsmith ==
    \E url \in Opt(LangsmithEndpoints), key \in Opt({<<>>, <<"l","s","-","k","e","y">>}),
       project \in Opt({ <<"d","e","m","o">> }) :
        InitFrom([BaseEnv EXCEPT !["TRACING_BACKEND"] = Some(<<"l","a","n","g","s","m","i","t","h">>),
                                 !["LANGSMITH_ENDPOINT"] = url,
                                 !["LANGSMITH_API_KEY"] = key,
                                 !["LANGSMITH_PROJECT"] = project])

SpecLangsmith == InitLangsmith /\ [][NextCall]_vars

(***************************************************************************)
(* Vocabulary of the properties.                                           *)
(***************************************************************************)
\* the provider built by the most recent call
LastProvider == providers[last.provider]

\* the exporter of the first processor of the most recent call's provider
LastExporter == LastProvider.processors[1].exporter

\* a and b are equal up to the case of their ASCII letters
SameLetters(a, b) ==
    /\ Len(a) = Len(b)
    /\ \A i \in 1..Len(a) :
          \/ a[i] = b[i]
          \/ \E j \in 34..59 : {a[i], b[i]} = {Printable[j], Printable[j + 32]}

\* s without its leading and trailing whitespace, by positions
Trim(s) ==
    LET keep == {i \in 1..Len(s) : s[i] \notin Whitespace}
    IN  IF keep = {} THEN <<>>
        ELSE SubSeq(s, CHOOSE i \in keep : \A j \in keep : i <= j,
                       CHOOSE i \in keep : \A j \in keep : j <= i)

\* the host name of a URL: what lies between "://" (when there is one) and
\* the next "/" or ":"
HostName(url) ==
    LET marks == {i \in 1..(Len(url) - 2) : SubSeq(url, i, i + 2) = <<":","/","/">>}
        from == IF marks = {} THEN 1
                ELSE 3 + (CHOOSE i \in marks : \A j \in marks : i <= j)
        stops == {i \in from..Len(url) : url[i] \in {"/", ":"}}
        to == IF stops = {} THEN Len(url)
              ELSE (CHOOSE i \in stops : \A j \in stops : i <= j) - 1
    IN  SubSeq(url, from, to)

\* the URL's host is domain d or a sub-domain of it
OnDomain(url, d) ==
    \/ HostName(url) = d
    \/ EndsWith(HostName(url), <<".">> \o d)

B64Index(c) == (CHOOSE i \in 1..64 : B64Alphabet[i] = c) - 1

\* base64.b64decode
RECURSIVE B64Decode(_)
B64Decode(t) ==
    IF Len(t) < 4 THEN <<>>
    ELSE LET v(i) == IF t[i] = "=" THEN 0 ELSE B64Index(t[i])
             n == v(1) * 262144 + v(2) * 4096 + v(3) * 64 + v(4)
             bytes == << Chr(n \div 65536) >>
                      \o (IF t[3] = "=" THEN <<>> ELSE << Chr((n \div 256) % 256) >>)
                      \o (IF t[4] = "=" THEN <<>> ELSE << Chr(n % 256) >>)
         IN  bytes \o B64Decode(SubSeq(t, 5, Len(t)))

\* the endpoint and headers the most recent call handed to the selector
LastEndpoint == last.frames[1].endpoint[1]

LastHeaders == last.frames[1].headers

\* the header map by rule: cut at every ",", each piece at its first "=",
\* key and value trimmed, later pieces overriding earlier ones
HeadersByRule(s) ==
    LET commas == {i \in 1..Len(s) : s[i] = ","}
        starts == {1} \cup {i + 1 : i \in commas}
        stop(a) == LET later == {i \in commas : i >= a}
                   IN  IF later = {} THEN Len(s)
                       ELSE (CHOOSE i \in later : \A j \in later : i <= j) - 1
        piece(a) == SubSeq(s, a, stop(a))
        eqs(a) == {i \in 1..Len(piece(a)) : piece(a)[i] = "="}
        eq(a) == CHOOSE i \in eqs(a) : \A j \in eqs(a) : i <= j
        pairs == {a \in starts : eqs(a) # {}}
        key(a) == Trim(SubSeq(piece(a), 1, eq(a) - 1))
        value(a) == Trim(SubSeq(piece(a), eq(a) + 1, Len(piece(a))))
        final(k) == CHOOSE a \in pairs :
                       key(a) = k /\ \A b \in pairs : key(b) = k => b <= a
    IN  [k \in {key(a) : a \in pairs} |-> value(final(k))]

\* the adapter the dispatch rule names for a raw TRACING_BACKEND value
ExpectedAdapter(raw) ==
    IF raw = None THEN "console"
    ELSE IF SameLetters(raw[1], <<"l","a","n","g","f","u","s","e">>) THEN "langfuse"
    ELSE IF SameLetters(raw[1], <<"l","a","n","g","s","m","i","t","h">>) THEN "langsmith"
    ELSE IF SameLetters(raw[1], <<"p","h","o","e","n","i","x">>) THEN "phoenix"
    ELSE IF SameLetters(raw[1], <<"c","o","n","s","o","l","e">>) THEN "console"
    ELSE "generic_otlp"

\* what each adapter builds when none of its own variables is set
ExporterByDefault(adapter) ==
    CASE adapter = "console" -> [kind |-> "console"]
      [] adapter = "langfuse" ->
            [kind |-> "http", headers |-> <<>>,
             endpoint |-> <<"h","t","t","p",":","/","/","l","o","c","a","l","h","o","s","t",":","3","0","0","0","/","a","p","i","/","p","u","b","l","i","c","/","o","t","e","l","/","v","1","/","t","r","a","c","e","s">>]
      [] adapter = "langsmith" ->
            [kind |-> "http", headers |-> <<>>,
             endpoint |-> <<"h","t","t","p","s",":","/","/","a","p","i",".","s","m","i","t","h",".","l","a","n","g","c","h","a","i","n",".","c","o","m","/","o","t","e","l","/","v","1","/","t","r","a","c","e","s">>]
      [] adapter = "phoenix" ->
            [kind |-> "http", headers |-> <<>>,
             endpoint |-> <<"h","t","t","p",":","/","/","l","o","c","a","l","h","o","s","t",":","6","0","0","6","/","v","1","/","t","r","a","c","e","s">>]
      [] adapter = "generic_otlp" ->
            [kind |-> "grpc", headers |-> <<>>, endpoint |-> <<"l","o","c","a","l","h","o","s","t",":","4","3","1","7">>]

(***************************************************************************)
(* C1: one configure_tracing call runs exactly one adapter, chosen by      *)
(* TRACING_BACKEND (console when unset; langfuse, langsmith, phoenix or    *)
(* console when the value is that name in any letter case; generic otlp    *)
(* for every other value, the empty string included), that adapter         *)
(* registers exactly one span processor on the provider the call built,    *)
(* and the call does not raise.                                            *)
(***************************************************************************)
C1_Dispatch ==
    last.called =>
        LET adapter == ExpectedAdapter(last.env["TRACING_BACKEND"])
        IN  /\ ~last.raised
            /\ last.adapters = <<adapter>>
            /\ last.provider = Len(providers)
            /\ LastProvider.processors = <<[exporter |-> ExporterByDefault(adapter)]>>

C1_Witness ==
    /\ last.called
    /\ last.env["TRACING_BACKEND"] = Some(<<"L","a","n","g","S","m","i","t","h">>)
    /\ last.adapters = <<"langsmith">>
    /\ Len(LastProvider.processors) = 1

(***************************************************************************)
(* C2: after a second configure_tracing call the global provider is the    *)
(* provider that call built, and the tracer it returns, like any later     *)
(* global lookup, is backed by that provider.                              *)
(***************************************************************************)
C2_Replaces ==
    (last.called /\ ~last.raised) =>
        /\ globalProvider = last.provider
        /\ tracers[last.tracer].provider = last.provider
        /\ get_tracer(globalProvider, DEFAULT_SERVICE_NAME).provider = last.provider

(***************************************************************************)
(* C3: when the instrumentation attempt fails (ImportError or any other    *)
(* exception) the call still returns a tracer, the global provider is the  *)
(* one the call built, and the processor its adapter registered is still   *)
(* registered.                                                             *)
(***************************************************************************)
C3_AttachFailure ==
    (last.called /\ last.attach \in {"ImportError", "Exception"}) =>
        /\ ~last.raised
        /\ last.tracer = Len(tracers) /\ last.tracer > 0
        /\ globalProvider = last.provider
        /\ Len(last.frames) = 1
        /\ LastProvider.processors = last.frames[1].added
        /\ Len(LastProvider.processors) = 1

(***************************************************************************)
(* C4: the transport selector builds the HTTP exporter exactly when the    *)
(* endpoint starts with "http://" or "https://", then with "/v1/traces"    *)
(* appended unless the endpoint already ends with it; otherwise it builds  *)
(* the gRPC exporter with the endpoint as given.  The headers are passed   *)
(* through in both cases.                                                  *)
(***************************************************************************)
C4_TransportSelector ==
    (last.called /\ ~last.raised) =>
        LET isHttp == \/ StartsWith(LastEndpoint, <<"h","t","t","p",":","/","/">>)
                      \/ StartsWith(LastEndpoint, <<"h","t","t","p","s",":","/","/">>)
        IN  /\ LastExporter.kind = IF isHttp THEN "http" ELSE "grpc"
            /\ isHttp /\ EndsWith(LastEndpoint, <<"/","v","1","/","t","r","a","c","e","s">>)
                  => LastExporter.endpoint = LastEndpoint
            /\ isHttp /\ ~EndsWith(LastEndpoint, <<"/","v","1","/","t","r","a","c","e","s">>)
                  => LastExporter.endpoint = LastEndpoint \o <<"/","v","1","/","t","r","a","c","e","s">>
            /\ ~isHttp => LastExporter.endpoint = LastEndpoint
            /\ LastExporter.headers = LastHeaders
            /\ LastEndpoint = <<"l","o","c","a","l","h","o","s","t",":","4","3","1","7">>
                  => LastExporter = [kind |-> "grpc", headers |-> LastHeaders,
                                     endpoint |-> <<"l","o","c","a","l","h","o","s","t",":","4","3","1","7">>]
            /\ LastEndpoint = <<"h","t","t","p","s",":","/","/","c","o","l","l","e","c","t","o","r">>
                  => LastExporter = [kind |-> "http", headers |-> LastHeaders,
                                     endpoint |-> <<"h","t","t","p","s",":","/","/","c","o","l","l","e","c","t","o","r","/","v","1","/","t","r","a","c","e","s">>]

C4_Witness ==
    /\ last.called
    /\ last.env["PHOENIX_ENDPOINT"] = Some(<<"h","t","t","p","s",":","/","/","c","o","l","l","e","c","t","o","r","/","v","1","/","t","r","a","c","e","s">>)
    /\ last.env["PHOENIX_API_KEY"] = Some(<<"s","e","c","r","e","t">>)
    /\ LastExporter.kind = "http"
    /\ LastExporter.endpoint = <<"h","t","t","p","s",":","/","/","c","o","l","l","e","c","t","o","r","/","v","1","/","t","r","a","c","e","s">>
    /\ LastExporter.headers # EmptyDict

(***************************************************************************)
(* C5: parsing OTEL_EXPORTER_OTLP_HEADERS never raises and yields the map  *)
(* got by cutting the string at every "," and each piece at its first "="  *)
(* only, key and value trimmed; pieces without "=" add nothing.            *)
(***************************************************************************)
C5_HeaderParsing ==
    last.called =>
        LET s == IF last.env["OTEL_EXPORTER_OTLP_HEADERS"] = None THEN <<>>
                 ELSE last.env["OTEL_EXPORTER_OTLP_HEADERS"][1]
        IN  /\ ~last.raised
            /\ LastHeaders = HeadersByRule(s)
            /\ LastExporter.headers = LastHeaders
            /\ s = <<"k","1","=","v","1",",","k","2","=","v","2">>
                  => LastHeaders = (<<"k","1">> :> <<"v","1">>) @@ (<<"k","2">> :> <<"v","2">>)
            /\ s = <<>> => LastHeaders = EmptyDict
            /\ s = <<"b","a","d",",","k","=","v">> => LastHeaders = (<<"k">> :> <<"v">>)
            /\ s = <<"k","=","a","=","b">> => LastHeaders = (<<"k">> :> <<"a","=","b">>)

C5_Witness ==
    /\ last.called
    /\ last.env["OTEL_EXPORTER_OTLP_HEADERS"] = Some(<<"k","=","a","=","b">>)
    /\ LastExporter.headers = (<<"k">> :> <<"a","=","b">>)

(***************************************************************************)
(* C6: the generic otlp adapter's endpoint is the first non-empty of       *)
(* OTEL_EXPORTER_OTLP_TRACES_ENDPOINT and OTEL_EXPORTER_OTLP_ENDPOINT, and *)
(* "localhost:4317" when neither is non-empty (unset or empty).            *)
(***************************************************************************)
C6_EndpointFallback ==
    (last.called /\ last.adapters = <<"generic_otlp">> /\ ~last.raised) =>
        LET traces == last.env["OTEL_EXPORTER_OTLP_TRACES_ENDPOINT"]
            generic == last.env["OTEL_EXPORTER_OTLP_ENDPOINT"]
        IN  LastEndpoint = IF Truthy(traces) THEN traces[1]
                           ELSE IF Truthy(generic) THEN generic[1]
                           ELSE <<"l","o","c","a","l","h","o","s","t",":","4","3","1","7">>

(***************************************************************************)
(* C7: the langfuse endpoint is the local default when LANGFUSE_HOST is    *)
(* unset, the fixed US endpoint for a host on us.cloud.langfuse.com        *)
(* whatever its path, the fixed cloud endpoint for any other host on       *)
(* cloud.langfuse.com, and the host followed by "/api/public/otel" for a   *)
(* host that is not on cloud.langfuse.com.                                 *)
(***************************************************************************)
C7_LangfuseEndpoint ==
    (last.called /\ last.adapters = <<"langfuse">>) =>
        LET host == last.env["LANGFUSE_HOST"]
        IN  LastEndpoint =
               IF host = None THEN <<"h","t","t","p",":","/","/","l","o","c","a","l","h","o","s","t",":","3","0","0","0","/","a","p","i","/","p","u","b","l","i","c","/","o","t","e","l">>
               ELSE IF OnDomain(host[1], <<"u","s",".","c","l","o","u","d",".","l","a","n","g","f","u","s","e",".","c","o","m">>)
                    THEN <<"h","t","t","p","s",":","/","/","u","s",".","c","l","o","u","d",".","l","a","n","g","f","u","s","e",".","c","o","m","/","a","p","i","/","p","u","b","l","i","c","/","o","t","e","l">>
               ELSE IF OnDomain(host[1], <<"c","l","o","u","d",".","l","a","n","g","f","u","s","e",".","c","o","m">>)
                    THEN <<"h","t","t","p","s",":","/","/","c","l","o","u","d",".","l","a","n","g","f","u","s","e",".","c","o","m","/","a","p","i","/","p","u","b","l","i","c","/","o","t","e","l">>
               ELSE host[1] \o <<"/","a","p","i","/","p","u","b","l","i","c","/","o","t","e","l">>

(***************************************************************************)
(* C8: the langfuse adapter never fails for missing credentials: whatever  *)
(* LANGFUSE_PUBLIC_KEY and LANGFUSE_SECRET_KEY are (unset, empty or not),  *)
(* it registers one processor, and its headers hold "Authorization"        *)
(* ("Basic " and the base64 of public:secret) exactly when both keys are   *)
(* non-empty; otherwise the headers are empty.                             *)
(***************************************************************************)
C8_LangfuseCredentials ==
    (last.called /\ last.adapters = <<"langfuse">>) =>
        LET pk == last.env["LANGFUSE_PUBLIC_KEY"]
            sk == last.env["LANGFUSE_SECRET_KEY"]
            both == Truthy(pk) /\ Truthy(sk)
        IN  /\ ~last.raised
            /\ Len(LastProvider.processors) = 1
            /\ LastExporter.headers = LastHeaders
            /\ (<<"A","u","t","h","o","r","i","z","a","t","i","o","n">> \in DOMAIN LastHeaders) <=> both
            /\ ~both => LastHeaders = EmptyDict
            /\ both =>
                  LET auth == LastHeaders[<<"A","u","t","h","o","r","i","z","a","t","i","o","n">>]
                  IN  /\ DOMAIN LastHeaders = { <<"A","u","t","h","o","r","i","z","a","t","i","o","n">> }
                      /\ StartsWith(auth, <<"B","a","s","i","c"," ">>)
                      /\ B64Decode(SubSeq(auth, 7, Len(auth)))
                            = pk[1] \o <<":">> \o sk[1]
            /\ (pk = Some(<<"p","k">>) /\ sk = Some(<<"p">>))
                  => LastHeaders = (<<"A","u","t","h","o","r","i","z","a","t","i","o","n">> :> <<"B","a","s","i","c"," ","c","G","s","6","c","A","=","=">>)

C8_Witness ==
    /\ last.called
    /\ last.env["LANGFUSE_PUBLIC_KEY"] = Some(<<"p","k","-","l","f","-","1">>)
    /\ last.env["LANGFUSE_SECRET_KEY"] = Some(<<"p","k">>)
    /\ <<"A","u","t","h","o","r","i","z","a","t","i","o","n">> \in DOMAIN LastExporter.headers

(***************************************************************************)
(* C9: the langsmith endpoint is the fixed EU endpoint whenever            *)
(* LANGSMITH_ENDPOINT is on eu.api.smith.langchain.com, and otherwise      *)
(* LANGSMITH_ENDPOINT (by default https://api.smith.langchain.com) with    *)
(* "/otel" appended unless it already ends with it; so the endpoint always *)
(* ends with "/otel", never with "/otel" added to an "/otel" ending, and   *)
(* resolving a resolved endpoint returns it unchanged.                     *)
(***************************************************************************)
C9_LangsmithEndpoint ==
    (last.called /\ last.adapters = <<"langsmith">>) =>
        LET url == IF last.env["LANGSMITH_ENDPOINT"] = None
                   THEN <<"h","t","t","p","s",":","/","/","a","p","i",".","s","m","i","t","h",".","l","a","n","g","c","h","a","i","n",".","c","o","m">>
                   ELSE last.env["LANGSMITH_ENDPOINT"][1]
            again == langsmith_endpoint(
                         [last.env EXCEPT !["LANGSMITH_ENDPOINT"] = Some(LastEndpoint)])
        IN  /\ OnDomain(url, <<"e","u",".","a","p","i",".","s","m","i","t","h",".","l","a","n","g","c","h","a","i","n",".","c","o","m">>)
                  => LastEndpoint = <<"h","t","t","p","s",":","/","/","e","u",".","a","p","i",".","s","m","i","t","h",".","l","a","n","g","c","h","a","i","n",".","c","o","m","/","o","t","e","l">>
            /\ ~OnDomain(url, <<"e","u",".","a","p","i",".","s","m","i","t","h",".","l","a","n","g","c","h","a","i","n",".","c","o","m">>)
                  => LastEndpoint = IF EndsWith(url, <<"/","o","t","e","l">>) THEN url
                                    ELSE url \o <<"/","o","t","e","l">>
            /\ EndsWith(LastEndpoint, <<"/","o","t","e","l">>)
            /\ EndsWith(url, <<"/","o","t","e","l">>) => ~EndsWith(LastEndpoint, <<"/","o","t","e","l","/","o","t","e","l">>)
                                           \/ EndsWith(url, <<"/","o","t","e","l","/","o","t","e","l">>)
            /\ again = LastEndpoint

\* every provider holds exactly one processor, its own call's, and every
\* tracer is bound to a provider that exists
C10_OneProcessorEach ==
    /\ \A p \in 1..Len(providers) :
          Len(providers[p].processors) = 1 /\ ~providers[p].shutdown
    /\ last.called =>
          /\ Len(last.frames) = 1
          /\ LastProvider.processors = last.frames[1].added
    /\ \A t \in 1..Len(tracers) : tracers[t].provider \in 1..Len(providers)
    /\ tracers # <<>> => tracers[1].provider = 1

\* a step leaves the providers and tracers that exist as they are
C10_EarlierUntouched ==
    /\ Len(providers') >= Len(providers)
    /\ \A p \in 1..Len(providers) : providers'[p] = providers[p]
    /\ Len(tracers') >= Len(tracers)
    /\ \A t \in 1..Len(tracers) : tracers'[t] = tracers[t]

=============================================================================
